---- MODULE Spec2Model ----
(***************************************************************************)
(* Shell completion of podman: cmd/podman/common/completion.go.            *)
(*                                                                         *)
(* Go strings are modelled as sequences of one-character strings, so that  *)
(* strings.HasPrefix, slicing, strings.Split, fmt.Sprintf("%d") and        *)
(* fmt.Sscanf are computed character by character.  A []string is a        *)
(* sequence of such strings; a nil slice and an empty slice are both << >>.*)
(* A cobra.ShellCompDirective is the set of its flags, "|" is \cup and     *)
(* ShellCompDirectiveDefault (0) is the empty set.                         *)
(***************************************************************************)
EXTENDS Integers, Sequences, FiniteSets, TLC

VARIABLES
    backend,            \* the engine behind registry.ContainerEngine()/ImageEngine()
    containerStatuses,  \* package-level slice, completion.go:751
    ChangeCmds,         \* package-level slice, completion.go:21
    LogLevels,          \* package-level slice, completion.go:23
    last                \* the last completion call: its inputs and what it returned

vars == <<backend, containerStatuses, ChangeCmds, LogLevels, last>>

(***************************************************************************)
(* Bounds of the model.                                                    *)
(***************************************************************************)
\* at most this many arguments are already on the command line
MaxArgs == 2
\* largest argument count a validator of the model is declared with
MaxArity == 2
\* at most this many records of each kind in the backend
MaxRecords == 2
\* a key-value call that rewrites containerStatuses is taken only while the
\* first status is shorter than this
MaxStatusLen == 15
\* the enumeration orders of a grammar are rotated by at most this much
MaxRotation == 1

(***************************************************************************)
(* strings                                                                 *)
(***************************************************************************)
\* strings.HasPrefix(s, prefix)
HasPrefix(s, prefix) ==
    Len(prefix) <= Len(s) /\ SubSeq(s, 1, Len(prefix)) = prefix

\* strings.TrimPrefix(s, prefix)
TrimPrefix(s, prefix) ==
    IF HasPrefix(s, prefix) THEN SubSeq(s, Len(prefix) + 1, Len(s)) ELSE s

\* strings.ReplaceAll(s, old, new), old non-empty: leftmost non-overlapping
RECURSIVE ReplaceAll(_, _, _)
ReplaceAll(s, old, new) ==
    IF s = << >> THEN << >>
    ELSE IF HasPrefix(s, old)
         THEN new \o ReplaceAll(SubSeq(s, Len(old) + 1, Len(s)), old, new)
         ELSE <<Head(s)>> \o ReplaceAll(Tail(s), old, new)

\* strings.Contains(s, sep) for a one-character sep
Contains(s, sep) == \E i \in 1..Len(s) : s[i] = sep[1]

\* index of the first sep in s, 0 when there is none (strings.Index + 1)
RECURSIVE IndexOf(_, _, _)
IndexOf(s, sep, i) ==
    IF i > Len(s) THEN 0
    ELSE IF s[i] = sep[1] THEN i ELSE IndexOf(s, sep, i + 1)

\* strings.SplitN(s, sep, 2)[0]: the part before the first sep, s if none
SplitN2First(s, sep) ==
    LET i == IndexOf(s, sep, 1)
    IN  IF i = 0 THEN s ELSE SubSeq(s, 1, i - 1)

\* strings.Split(s, sep) for a one-character sep
RECURSIVE Split(_, _)
Split(s, sep) ==
    LET i == IndexOf(s, sep, 1)
    IN  IF i = 0 THEN <<s>>
        ELSE <<SubSeq(s, 1, i - 1)>> \o Split(SubSeq(s, i + 1, Len(s)), sep)

\* strings.Join(elems, sep)
RECURSIVE Join(_, _)
Join(elems, sep) ==
    IF elems = << >> THEN << >>
    ELSE IF Len(elems) = 1 THEN elems[1]
    ELSE elems[1] \o sep \o Join(Tail(elems), sep)

Digits == <<"0", "1", "2", "3", "4", "5", "6", "7", "8", "9">>

IsDigit(c) == \E d \in 1..10 : Digits[d] = c

DigitVal(c) == (CHOOSE d \in 1..10 : Digits[d] = c) - 1

\* fmt's %d of a non-negative int
RECURSIVE Itoa(_)
Itoa(n) ==
    IF n < 10 THEN <<Digits[n + 1]>>
    ELSE Itoa(n \div 10) \o <<Digits[(n % 10) + 1]>>

(***************************************************************************)
(* cobra.ShellCompDirective                                                *)
(***************************************************************************)
ShellCompDirectiveError == {"Error"}
ShellCompDirectiveNoSpace == {"NoSpace"}
ShellCompDirectiveNoFileComp == {"NoFileComp"}
ShellCompDirectiveDefault == {}

(***************************************************************************)
(* cmd.Args: the command's positional-argument validator.  A validator is  *)
(* a record; Args(v, args) is nil (accepted) or the error it returns.       *)
(* The texts are the ones validCurrentCmdLine is written against           *)
(* (ExactArgs, MinimumNArgs) and cobra's other arity validators, plus a    *)
(* validator that rejects for a reason other than the argument count.      *)
(***************************************************************************)
\* an error value: nil, or an error with its text (err.Error())
nil == [isNil |-> TRUE, Error |-> << >>]

NewError(text) == [isNil |-> FALSE, Error |-> text]

NoValidator == [kind |-> "nil", n |-> 0, m |-> 0]
MinimumNArgs(n) == [kind |-> "MinimumNArgs", n |-> n, m |-> 0]
ExactArgs(n) == [kind |-> "ExactArgs", n |-> n, m |-> 0]
MaximumNArgs(n) == [kind |-> "MaximumNArgs", n |-> n, m |-> 0]
RangeArgs(n, m) == [kind |-> "RangeArgs", n |-> n, m |-> m]
LatestValidator == [kind |-> "NoArgsWithLatest", n |-> 0, m |-> 0]

Args(v, args) ==
    LET got == Len(args)
    IN  CASE v.kind = "MinimumNArgs" ->
               IF got < v.n
               THEN NewError(<<"r","e","q","u","i","r","e","s"," ","a","t"," ","l","e","a","s","t"," ">> \o Itoa(v.n)
                                 \o <<" ","a","r","g","(","s",")",","," ","o","n","l","y"," ","r","e","c","e","i","v","e","d"," ">> \o Itoa(got))
               ELSE nil
          [] v.kind = "ExactArgs" ->
               IF got # v.n
               THEN NewError(<<"a","c","c","e","p","t","s"," ">> \o Itoa(v.n) \o <<" ","a","r","g","(","s",")",","," ","r","e","c","e","i","v","e","d"," ">> \o Itoa(got))
               ELSE nil
          [] v.kind = "MaximumNArgs" ->
               IF got > v.n
               THEN NewError(<<"a","c","c","e","p","t","s"," ","a","t"," ","m","o","s","t"," ">> \o Itoa(v.n)
                                 \o <<" ","a","r","g","(","s",")",","," ","r","e","c","e","i","v","e","d"," ">> \o Itoa(got))
               ELSE nil
          [] v.kind = "RangeArgs" ->
               IF got < v.n \/ got > v.m
               THEN NewError(<<"a","c","c","e","p","t","s"," ","b","e","t","w","e","e","n"," ">> \o Itoa(v.n) \o <<" ","a","n","d"," ">> \o Itoa(v.m)
                                 \o <<" ","a","r","g","(","s",")",","," ","r","e","c","e","i","v","e","d"," ">> \o Itoa(got))
               ELSE nil
          [] v.kind = "NoArgsWithLatest" ->
               IF got > 0 THEN NewError(<<"n","o"," ","a","r","g","u","m","e","n","t","s"," ","a","r","e"," ","n","e","e","d","e","d"," ","w","i","t","h"," ","-","-","l","a","t","e","s","t">>) ELSE nil
          [] OTHER -> nil

(***************************************************************************)
(* fmt.Sscanf(cleanErr, "%d arg(s), received %d", &need, &got)             *)
(***************************************************************************)
RECURSIVE SkipSpace(_)
SkipSpace(s) ==
    IF s # << >> /\ Head(s) = " " THEN SkipSpace(Tail(s)) ELSE s

\* the digits at the head of s as a number, most significant first
RECURSIVE ScanDigits(_, _)
ScanDigits(s, acc) ==
    IF s # << >> /\ IsDigit(Head(s))
    THEN ScanDigits(Tail(s), acc * 10 + DigitVal(Head(s)))
    ELSE [val |-> acc, rest |-> s]

\* the verb %d: leading spaces are skipped, an optional sign, then digits
ScanInt(s) ==
    LET t == SkipSpace(s)
        neg == t # << >> /\ Head(t) = "-"
        u == IF t # << >> /\ Head(t) \in {"+", "-"} THEN Tail(t) ELSE t
        d == ScanDigits(u, 0)
    IN  IF u = << >> \/ ~IsDigit(Head(u))
        THEN [ok |-> FALSE, val |-> 0, rest |-> s]
        ELSE [ok |-> TRUE, val |-> IF neg THEN 0 - d.val ELSE d.val, rest |-> d.rest]

\* the literal text of a format: a space of the format takes the spaces of
\* the input (at least one, or the end of the input), any other character
\* has to be the next character of the input
RECURSIVE MatchLiteral(_, _)
MatchLiteral(s, lit) ==
    IF lit = << >> THEN [ok |-> TRUE, rest |-> s]
    ELSE IF Head(lit) = " "
         THEN IF s = << >> THEN [ok |-> TRUE, rest |-> s]
              ELSE IF Head(s) # " " THEN [ok |-> FALSE, rest |-> s]
              ELSE MatchLiteral(SkipSpace(s), Tail(lit))
         ELSE IF s = << >> \/ Head(s) # Head(lit) THEN [ok |-> FALSE, rest |-> s]
              ELSE MatchLiteral(Tail(s), Tail(lit))

\* err is nil exactly when both numbers were scanned
Sscanf(cleanErr) ==
    LET a == ScanInt(cleanErr)
        l == MatchLiteral(a.rest, <<" ","a","r","g","(","s",")",","," ","r","e","c","e","i","v","e","d"," ">>)
        b == ScanInt(l.rest)
    IN  IF a.ok /\ l.ok /\ b.ok
        THEN [err |-> nil, need |-> a.val, got |-> b.val]
        ELSE [err |-> NewError(IF ~a.ok \/ (l.ok /\ ~b.ok) THEN <<"e","x","p","e","c","t","e","d"," ","i","n","t","e","g","e","r">>
                               ELSE <<"i","n","p","u","t"," ","d","o","e","s"," ","n","o","t"," ","m","a","t","c","h"," ","f","o","r","m","a","t">>),
              need |-> IF a.ok THEN a.val ELSE 0, got |-> 0]

(***************************************************************************)
(* validCurrentCmdLine: "true", "false", or "panic" when the function does *)
(* not return: err.Error() at line 226 is called on the error of Sscanf,   *)
(* which is nil when the message was parsed and need < got.                *)
(***************************************************************************)
\* lines 212-216
CleanErr(msg) ==
    TrimPrefix(ReplaceAll(TrimPrefix(msg, <<"r","e","q","u","i","r","e","s"," ","a","t"," ","l","e","a","s","t"," ">>),
                          <<"o","n","l","y"," ","r","e","c","e","i","v","e","d">>, <<"r","e","c","e","i","v","e","d">>),
               <<"a","c","c","e","p","t","s"," ">>)

\* a validCurrentCmdLine that offers completions when the message is not understood
validCurrentCmdLineFailOpen(cmd, args, toComplete) ==
    IF cmd.kind = "nil" THEN "true"
    ELSE LET err == Args(cmd, Append(args, toComplete))
         IN  IF err # nil
             THEN LET scan == Sscanf(CleanErr(err.Error))
                  IN  IF scan.err = nil
                      THEN IF scan.need >= scan.got THEN "true" ELSE "panic"
                      ELSE "true"
             ELSE "true"

\* a validCurrentCmdLine whose last line returns false
validCurrentCmdLineRejectsValid(cmd, args, toComplete) ==
    IF cmd.kind = "nil" THEN "true"
    ELSE LET err == Args(cmd, Append(args, toComplete))
         IN  IF err # nil
             THEN LET scan == Sscanf(CleanErr(err.Error))
                  IN  IF scan.err = nil
                      THEN IF scan.need >= scan.got THEN "true" ELSE "panic"
                      ELSE "false"
             ELSE "false"

validCurrentCmdLine(cmd, args, toComplete) ==
    IF cmd.kind = "nil" THEN "true"
    ELSE LET err == Args(cmd, Append(args, toComplete))
         IN  IF err # nil
             THEN LET scan == Sscanf(CleanErr(err.Error))
                  IN  IF scan.err = nil
                      THEN IF scan.need >= scan.got THEN "true" ELSE "panic"
                      ELSE "false"
             ELSE "true"

(***************************************************************************)
(* The backend: the records the engine lists.  IDs are longer than the 12  *)
(* characters the adapters keep.  A query of the engine may fail; the      *)
(* adapters are given the backend with the queries that fail in this call. *)
(***************************************************************************)
\* c.ID[0:12], pod.Id[0:12], image.ID[0:12]
IDLen == 12

ContainerPool ==
    << [ID |-> <<"a","b","c","d","e","f","1","2","3","4","5","6","7">>, Names |-> <<<<"a","p","p">>, <<"a","l","i","a","s">>>>, PodName |-> << >>, State |-> "running"],
       [ID |-> <<"a","b","f","f","0","0","1","1","2","2","3","3","4">>, Names |-> <<<<"d","b">>>>, PodName |-> <<"p","o","d","1">>, State |-> "exited"],
       [ID |-> <<"d","0","e","1","f","2","a","3","b","4","c","5","d">>, Names |-> <<<<"a","b","f">>>>, PodName |-> << >>, State |-> "created"],
       [ID |-> <<"0","1","2","3","4","5","6","7","8","9","a","b","c">>, Names |-> <<<<"d">>>>, PodName |-> <<"p","o","d","1">>, State |-> "paused"] >>

PodPool ==
    << [Id |-> <<"a","b","0","1","2","3","4","5","6","7","8","9","c">>, Name |-> <<"p","o","d","1">>, Status |-> "running"],
       [Id |-> <<"d","d","0","1","2","3","4","5","6","7","8","9","a">>, Name |-> <<"a","b">>, Status |-> "degraded"],
       [Id |-> <<"a","b","f","1","2","3","4","5","6","7","8","9","a">>, Name |-> <<"a","p","i">>, Status |-> "exited"],
       [Id |-> <<"a","0","0","0","0","0","0","0","0","0","0","0","b">>, Name |-> <<"d","d">>, Status |-> "created"] >>

ImagePool ==
    << [ID |-> <<"a","b","c","1","2","3","d","e","f","4","5","6","7">>, RepoTags |-> <<<<"r","e","g",".","i","o","/","g","r","p","/","a","p","p",":","v","1">>>>],
       [ID |-> <<"d","4","e","5","f","6","a","7","b","8","c","9","d">>, RepoTags |-> <<<<"r","e","g",":","5","0","0","0","/","d","b","@","s","h","a">>, <<"a","b","f">>>>],
       [ID |-> <<"a","f","f","e","0","0","a","f","f","e","0","0","a">>, RepoTags |-> << >>],
       [ID |-> <<"a","b","0","0","a","b","0","0","a","b","0","0","a">>, RepoTags |-> <<<<"a","/","d",":","a","b">>>>] >>

VolumePool ==
    << [Name |-> <<"a","p","p">>], [Name |-> <<"d","a","t","a">>], [Name |-> <<"a","b","f">>], [Name |-> <<"a">>] >>

NetworkPool ==
    << [Name |-> <<"p","o","d","m","a","n">>], [Name |-> <<"a","b","n","e","t">>], [Name |-> <<"d">>], [Name |-> <<"a">>] >>

\* registries.GetRegistries() of the configuration
Registries == <<<<"d","o","c","k","e","r",".","i","o">>, <<"q","u","a","y",".","i","o">>>>

\* cfg.Engine.ServiceDestinations of the configuration
ServiceDestinations == <<[Name |-> <<"d","e","v">>, URI |-> <<"s","s","h",":","/","/","h","/","p">>]>>

Min(a, b) == IF a < b THEN a ELSE b

Take(pool, n) == SubSeq(pool, 1, Min(n, Len(pool)))

Backends ==
    { [containers |-> Take(ContainerPool, n), pods |-> Take(PodPool, n),
       images |-> Take(ImagePool, n), volumes |-> Take(VolumePool, n),
       networks |-> Take(NetworkPool, n)] : n \in 0..MaxRecords }

\* the backend as one call sees it: the queries in failing return an error
Engine(b, failing) ==
    [containers |-> b.containers, pods |-> b.pods, images |-> b.images,
     volumes |-> b.volumes, networks |-> b.networks, failing |-> failing]

(***************************************************************************)
(* Entity query adapters.  Each returns [sugg, dir, q]: the suggestions,   *)
(* the directive and the queries it issued, in order.                      *)
(***************************************************************************)
completeDefault == "completeDefault"
completeIDs == "completeIDs"
completeNames == "completeNames"

\* an adapter that issues a failed query a second time before it gives up
QueryFailedRetried(query) ==
    [sugg |-> << >>, dir |-> ShellCompDirectiveError, q |-> <<query, query>>]

\* what an adapter returns when its query failed: return nil, ShellCompDirectiveError
QueryFailed(query) ==
    [sugg |-> << >>, dir |-> ShellCompDirectiveError, q |-> <<query>>]

\* the engine applies listOpts.Filters["status"]
FilterStatus(records, statuses, field) ==
    IF statuses = {} THEN records
    ELSE SelectSeq(records, LAMBDA r : r[field] \in statuses)

\* IDs from the first typed character on
IncludeIDFromOneChar(toComplete, cType) ==
    (Len(toComplete) > 0 /\ cType = completeDefault) \/ cType = completeIDs

\* lines 59-60 and 89-90, without the prefix test
IncludeID(toComplete, cType) ==
    (Len(toComplete) > 1 /\ cType = completeDefault) \/ cType = completeIDs

\* names in every mode
IncludeNameAlways(cType) == TRUE

\* lines 64 and 94, without the prefix test
IncludeName(cType) == cType # completeIDs

\* the records taken last to first
RECURSIVE ContainerSuggestionsReversed(_, _, _)
ContainerSuggestionsReversed(containers, toComplete, cType) ==
    IF containers = << >> THEN << >>
    ELSE LET c == Head(containers)
         IN  ContainerSuggestionsReversed(Tail(containers), toComplete, cType)
             \o (IF IncludeID(toComplete, cType) /\ HasPrefix(c.ID, toComplete)
                 THEN <<SubSeq(c.ID, 1, IDLen) \o <<"\t">> \o c.PodName>> ELSE << >>)
             \o (IF IncludeName(cType) /\ HasPrefix(c.Names[1], toComplete)
                 THEN <<c.Names[1] \o <<"\t">> \o c.PodName>> ELSE << >>)

\* the loop of lines 56-67
RECURSIVE ContainerSuggestions(_, _, _)
ContainerSuggestions(containers, toComplete, cType) ==
    IF containers = << >> THEN << >>
    ELSE LET c == Head(containers)
         IN  (IF IncludeID(toComplete, cType) /\ HasPrefix(c.ID, toComplete)
              THEN <<SubSeq(c.ID, 1, IDLen) \o <<"\t">> \o c.PodName>> ELSE << >>)
             \o (IF IncludeName(cType) /\ HasPrefix(c.Names[1], toComplete)
                 THEN <<c.Names[1] \o <<"\t">> \o c.PodName>> ELSE << >>)
             \o ContainerSuggestions(Tail(containers), toComplete, cType)

getContainers(b, toComplete, cType, statuses) ==
    IF "ContainerList" \in b.failing THEN QueryFailed("ContainerList")
    ELSE [sugg |-> ContainerSuggestions(FilterStatus(b.containers, statuses, "State"),
                                        toComplete, cType),
          dir |-> ShellCompDirectiveNoFileComp,
          q |-> <<"ContainerList">>]

\* the loop of lines 86-97
RECURSIVE PodSuggestions(_, _, _)
PodSuggestions(pods, toComplete, cType) ==
    IF pods = << >> THEN << >>
    ELSE LET pod == Head(pods)
         IN  (IF IncludeID(toComplete, cType) /\ HasPrefix(pod.Id, toComplete)
              THEN <<SubSeq(pod.Id, 1, IDLen)>> ELSE << >>)
             \o (IF IncludeName(cType) /\ HasPrefix(pod.Name, toComplete)
                 THEN <<pod.Name>> ELSE << >>)
             \o PodSuggestions(Tail(pods), toComplete, cType)

getPods(b, toComplete, cType, statuses) ==
    IF "PodPs" \in b.failing THEN QueryFailed("PodPs")
    ELSE [sugg |-> PodSuggestions(FilterStatus(b.pods, statuses, "Status"),
                                  toComplete, cType),
          dir |-> ShellCompDirectiveNoFileComp,
          q |-> <<"PodPs">>]

\* the records whose Name has the prefix, lines 111-115 and 184-188
RECURSIVE NameSuggestions(_, _)
NameSuggestions(records, toComplete) ==
    IF records = << >> THEN << >>
    ELSE (IF HasPrefix(Head(records).Name, toComplete)
          THEN <<Head(records).Name>> ELSE << >>)
         \o NameSuggestions(Tail(records), toComplete)

getVolumes(b, toComplete) ==
    IF "VolumeList" \in b.failing THEN QueryFailed("VolumeList")
    ELSE [sugg |-> NameSuggestions(b.volumes, toComplete),
          dir |-> ShellCompDirectiveNoFileComp,
          q |-> <<"VolumeList">>]

\* line 154: what precedes the first colon, and of that what precedes the first at sign
WithoutTag(suggestionWithTag) ==
    SplitN2First(SplitN2First(suggestionWithTag, <<":">>), <<"@">>)

\* the loop over paths of lines 149-158, from index i on
RECURSIVE PathSuggestions(_, _, _)
PathSuggestions(paths, i, toComplete) ==
    IF i > Len(paths) THEN << >>
    ELSE LET suggestionWithTag == Join(SubSeq(paths, i, Len(paths)), <<"/">>)
             suggestionWithoutTag == WithoutTag(suggestionWithTag)
         IN  (IF HasPrefix(suggestionWithTag, toComplete)
              THEN <<suggestionWithTag>> ELSE << >>)
             \o (IF HasPrefix(suggestionWithoutTag, toComplete)
                 THEN <<suggestionWithoutTag>> ELSE << >>)
             \o PathSuggestions(paths, i + 1, toComplete)

\* every repo tag split into its paths, whatever the token
RECURSIVE RepoSuggestionsAlwaysSplit(_, _)
RepoSuggestionsAlwaysSplit(repoTags, toComplete) ==
    IF repoTags = << >> THEN << >>
    ELSE PathSuggestions(Split(Head(repoTags), <<"/">>), 1, toComplete)
         \o RepoSuggestionsAlwaysSplit(Tail(repoTags), toComplete)

\* the loop over image.RepoTags of lines 134-160
RECURSIVE RepoSuggestions(_, _)
RepoSuggestions(repoTags, toComplete) ==
    IF repoTags = << >> THEN << >>
    ELSE LET repo == Head(repoTags)
         IN  (IF toComplete = << >>
              THEN IF HasPrefix(repo, toComplete) THEN <<repo>> ELSE << >>
              ELSE PathSuggestions(Split(repo, <<"/">>), 1, toComplete))
             \o RepoSuggestions(Tail(repoTags), toComplete)

\* image IDs from the first typed character on
IncludeImageIDFromOneChar(toComplete) == Len(toComplete) > 0

\* line 131, without the prefix test
IncludeImageID(toComplete) == Len(toComplete) > 1

\* the loop of lines 129-161
RECURSIVE ImageSuggestions(_, _)
ImageSuggestions(images, toComplete) ==
    IF images = << >> THEN << >>
    ELSE LET image == Head(images)
         IN  (IF IncludeImageID(toComplete) /\ HasPrefix(image.ID, toComplete)
              THEN <<SubSeq(image.ID, 1, IDLen)>> ELSE << >>)
             \o RepoSuggestions(image.RepoTags, toComplete)
             \o ImageSuggestions(Tail(images), toComplete)

getImages(b, toComplete) ==
    IF "ImageList" \in b.failing THEN QueryFailed("ImageList")
    ELSE [sugg |-> ImageSuggestions(b.images, toComplete),
          dir |-> ShellCompDirectiveNoFileComp,
          q |-> <<"ImageList">>]

getRegistries(b) ==
    IF "GetRegistries" \in b.failing THEN QueryFailed("GetRegistries")
    ELSE [sugg |-> Registries,
          dir |-> ShellCompDirectiveNoFileComp,
          q |-> <<"GetRegistries">>]

getNetworks(b, toComplete) ==
    IF "NetworkList" \in b.failing THEN QueryFailed("NetworkList")
    ELSE [sugg |-> NameSuggestions(b.networks, toComplete),
          dir |-> ShellCompDirectiveNoFileComp,
          q |-> <<"NetworkList">>]

(***************************************************************************)
(* Key-value completion.  A keyValueCompletion is a Go map; here it is the *)
(* sequence of its entries [key, getComps] in the order the range loop     *)
(* visits them, getComps naming the nested completer ("nil" for none).     *)
(* A nested completer returns [sugg, dir, q, shared]; shared says that the *)
(* slice it returned is the package-level containerStatuses itself.        *)
(***************************************************************************)
HealthCheckStates == <<<<"h","e","a","l","t","h","y">>, <<"u","n","h","e","a","l","t","h","y">>>>

PodStatuses ==
    <<<<"s","t","o","p","p","e","d">>, <<"r","u","n","n","i","n","g">>, <<"p","a","u","s","e","d">>, <<"e","x","i","t","e","d">>, <<"d","e","a","d">>, <<"c","r","e","a","t","e","d">>, <<"d","e","g","r","a","d","e","d">>>>

LabelOptions ==
    <<<<"u","s","e","r",":">>, <<"r","o","l","e",":">>, <<"t","y","p","e",":">>, <<"l","e","v","e","l",":">>, <<"f","i","l","e","t","y","p","e",":">>, <<"d","i","s","a","b","l","e">>>>

Fresh(r) == [sugg |-> r.sugg, dir |-> r.dir, q |-> r.q, shared |-> FALSE]

\* the func literals of the grammars, by the line that declares them
GetComps(getComps, b, cs, s) ==
    CASE getComps = "getContainers(s, completeDefault)" ->
             Fresh(getContainers(b, s, completeDefault, {}))
      [] getComps = "getContainers(s, completeIDs)" ->
             Fresh(getContainers(b, s, completeIDs, {}))
      [] getComps = "getContainers(s, completeNames)" ->
             Fresh(getContainers(b, s, completeNames, {}))
      [] getComps = "getPods(s, completeIDs)" ->
             Fresh(getPods(b, s, completeIDs, {}))
      [] getComps = "getPods(s, completeNames)" ->
             Fresh(getPods(b, s, completeNames, {}))
      [] getComps = "getImages(s)" -> Fresh(getImages(b, s))
      [] getComps = "getVolumes(s)" -> Fresh(getVolumes(b, s))
      [] getComps = "containerStatuses" ->
             [sugg |-> cs, dir |-> ShellCompDirectiveNoFileComp, q |-> << >>,
              shared |-> TRUE]
      [] getComps = "podStatuses" ->
             [sugg |-> PodStatuses, dir |-> ShellCompDirectiveNoFileComp, q |-> << >>,
              shared |-> FALSE]
      [] getComps = "health" ->
             [sugg |-> HealthCheckStates, dir |-> ShellCompDirectiveNoFileComp,
              q |-> << >>, shared |-> FALSE]
      [] getComps = "paths" ->
             [sugg |-> << >>, dir |-> ShellCompDirectiveDefault, q |-> << >>,
              shared |-> FALSE]
      [] getComps = "label" ->
             IF HasPrefix(s, <<"d">>)
             THEN [sugg |-> <<<<"d","i","s","a","b","l","e">>>>, dir |-> ShellCompDirectiveNoFileComp,
                   q |-> << >>, shared |-> FALSE]
             ELSE [sugg |-> LabelOptions,
                   dir |-> ShellCompDirectiveNoSpace \cup ShellCompDirectiveNoFileComp,
                   q |-> << >>, shared |-> FALSE]

\* a prefixSlice that puts pre after each element
RECURSIVE prefixSliceAfter(_, _)
prefixSliceAfter(pre, slice) ==
    IF slice = << >> THEN << >>
    ELSE <<Head(slice) \o pre>> \o prefixSliceAfter(pre, Tail(slice))

\* prefixSlice: the elements of slice after the loop; the loop assigns them
\* in place, so this is also the new content of the array behind slice
RECURSIVE prefixSlice(_, _)
prefixSlice(pre, slice) ==
    IF slice = << >> THEN << >>
    ELSE <<pre \o Head(slice)>> \o prefixSlice(pre, Tail(slice))

\* a loop in which the key visited last decides whether NoSpace is set
RECURSIVE completeKeyValuesFromLastKeyDecides(_, _, _, _, _, _, _)
completeKeyValuesFromLastKeyDecides(toComplete, k, i, suggestions, directive, b, cs) ==
    IF i > Len(k)
    THEN [sugg |-> suggestions, dir |-> directive, q |-> << >>, panic |-> FALSE, cs |-> cs]
    ELSE LET key == k[i].key
             getComps == k[i].getComps
         IN  IF HasPrefix(toComplete, key)
             THEN IF getComps # "nil"
                  THEN LET r == GetComps(getComps, b, cs,
                                         SubSeq(toComplete, Len(key) + 1, Len(toComplete)))
                           out == prefixSlice(key, r.sugg)
                       IN  [sugg |-> out, dir |-> r.dir, q |-> r.q, panic |-> FALSE,
                            cs |-> IF r.shared THEN out ELSE cs]
                  ELSE [sugg |-> << >>, dir |-> ShellCompDirectiveNoFileComp,
                        q |-> << >>, panic |-> FALSE, cs |-> cs]
             ELSE IF HasPrefix(key, toComplete)
                  THEN completeKeyValuesFromLastKeyDecides(toComplete, k, i + 1,
                           Append(suggestions, key),
                           IF key[Len(key)] \in {"=", ":"}
                           THEN ShellCompDirectiveNoSpace \cup ShellCompDirectiveNoFileComp
                           ELSE ShellCompDirectiveNoFileComp,
                           b, cs)
                  ELSE completeKeyValuesFromLastKeyDecides(toComplete, k, i + 1,
                                                           suggestions, directive, b, cs)

\* the range loop of completeKeyValues from entry i on; cs is containerStatuses
\* and the result's cs is containerStatuses when the function returns
RECURSIVE completeKeyValuesFrom(_, _, _, _, _, _, _)
completeKeyValuesFrom(toComplete, k, i, suggestions, directive, b, cs) ==
    IF i > Len(k)
    THEN [sugg |-> suggestions, dir |-> directive, q |-> << >>, panic |-> FALSE, cs |-> cs]
    ELSE LET key == k[i].key
             getComps == k[i].getComps
         IN  IF HasPrefix(toComplete, key)
             THEN IF getComps # "nil"
                  THEN LET r == GetComps(getComps, b, cs,
                                         SubSeq(toComplete, Len(key) + 1, Len(toComplete)))
                           out == prefixSlice(key, r.sugg)
                       IN  [sugg |-> out, dir |-> r.dir, q |-> r.q, panic |-> FALSE,
                            cs |-> IF r.shared THEN out ELSE cs]
                  ELSE [sugg |-> << >>, dir |-> ShellCompDirectiveNoFileComp,
                        q |-> << >>, panic |-> FALSE, cs |-> cs]
             ELSE IF HasPrefix(key, toComplete)
                  THEN completeKeyValuesFrom(toComplete, k, i + 1,
                           Append(suggestions, key),
                           IF key[Len(key)] \in {"=", ":"}
                           THEN ShellCompDirectiveNoSpace \cup ShellCompDirectiveNoFileComp
                           ELSE directive,
                           b, cs)
                  ELSE completeKeyValuesFrom(toComplete, k, i + 1, suggestions,
                                             directive, b, cs)

\* a completeKeyValues whose directive starts with NoSpace set
completeKeyValuesNoSpace(toComplete, k, b, cs) ==
    completeKeyValuesFrom(toComplete, k, 1, << >>,
                          ShellCompDirectiveNoSpace \cup ShellCompDirectiveNoFileComp, b, cs)

completeKeyValues(toComplete, k, b, cs) ==
    completeKeyValuesFrom(toComplete, k, 1, << >>, ShellCompDirectiveNoFileComp, b, cs)

(***************************************************************************)
(* The order of a range loop over a map is not fixed.  The model visits a  *)
(* grammar declared as kv in the declared order rotated by o.rot (up to    *)
(* MaxRotation), and backwards when o.rev.                                 *)
(***************************************************************************)
Reverse(s) == [i \in 1..Len(s) |-> s[Len(s) + 1 - i]]

Rotate(s, n) == [i \in 1..Len(s) |-> s[((i - 1 + n) % Len(s)) + 1]]

Enumerate(kv, o) == IF o.rev THEN Reverse(Rotate(kv, o.rot)) ELSE Rotate(kv, o.rot)

Orders(kv) == [rot : 0..Min(Len(kv) - 1, MaxRotation), rev : BOOLEAN]

DeclaredOrder == [rot |-> 0, rev |-> FALSE]

(***************************************************************************)
(* Entry points.  Each returns [sugg, dir, q, panic]; panic says that the  *)
(* call did not return.  b is the backend with the queries that fail.      *)
(***************************************************************************)
Returned(r) == [sugg |-> r.sugg, dir |-> r.dir, q |-> r.q, panic |-> FALSE]

Panicked == [sugg |-> << >>, dir |-> {}, q |-> << >>, panic |-> TRUE]

\* an entry point that reports a rejected command line as an error
ArityRejectedAsError ==
    [sugg |-> << >>, dir |-> ShellCompDirectiveError, q |-> << >>, panic |-> FALSE]

\* return nil, cobra.ShellCompDirectiveNoFileComp after !validCurrentCmdLine(...)
ArityRejected ==
    [sugg |-> << >>, dir |-> ShellCompDirectiveNoFileComp, q |-> << >>, panic |-> FALSE]

\* the first statement of every positional entry point, then the rest of it
Gated(cmd, args, toComplete, rest) ==
    LET valid == validCurrentCmdLine(cmd, args, toComplete)
    IN  IF valid = "panic" THEN Panicked
        ELSE IF valid = "false" THEN ArityRejected
        ELSE rest

AutocompleteContainers(b, cmd, args, toComplete) ==
    Gated(cmd, args, toComplete,
          Returned(getContainers(b, toComplete, completeDefault, {})))

AutocompleteContainersCreated(b, cmd, args, toComplete) ==
    Gated(cmd, args, toComplete,
          Returned(getContainers(b, toComplete, completeDefault, {"created"})))

AutocompleteContainersExited(b, cmd, args, toComplete) ==
    Gated(cmd, args, toComplete,
          Returned(getContainers(b, toComplete, completeDefault, {"exited"})))

AutocompleteContainersPaused(b, cmd, args, toComplete) ==
    Gated(cmd, args, toComplete,
          Returned(getContainers(b, toComplete, completeDefault, {"paused"})))

AutocompleteContainersRunning(b, cmd, args, toComplete) ==
    Gated(cmd, args, toComplete,
          Returned(getContainers(b, toComplete, completeDefault, {"running"})))

AutocompleteContainersStartable(b, cmd, args, toComplete) ==
    Gated(cmd, args, toComplete,
          Returned(getContainers(b, toComplete, completeDefault, {"created", "exited"})))

AutocompletePods(b, cmd, args, toComplete) ==
    Gated(cmd, args, toComplete,
          Returned(getPods(b, toComplete, completeDefault, {})))

AutocompletePodsRunning(b, cmd, args, toComplete) ==
    Gated(cmd, args, toComplete,
          Returned(getPods(b, toComplete, completeDefault, {"running", "degraded"})))

\* a composite that returns the directive of its first adapter
AutocompleteContainersAndPodsFirstDirective(b, cmd, args, toComplete) ==
    Gated(cmd, args, toComplete,
          LET containers == getContainers(b, toComplete, completeDefault, {})
              pods == getPods(b, toComplete, completeDefault, {})
          IN  [sugg |-> containers.sugg \o pods.sugg,
               dir |-> containers.dir,
               q |-> containers.q \o pods.q, panic |-> FALSE])

AutocompleteContainersAndPods(b, cmd, args, toComplete) ==
    Gated(cmd, args, toComplete,
          LET containers == getContainers(b, toComplete, completeDefault, {})
              pods == getPods(b, toComplete, completeDefault, {})
          IN  [sugg |-> containers.sugg \o pods.sugg,
               dir |-> ShellCompDirectiveNoFileComp,
               q |-> containers.q \o pods.q, panic |-> FALSE])

AutocompleteContainersAndImages(b, cmd, args, toComplete) ==
    Gated(cmd, args, toComplete,
          LET containers == getContainers(b, toComplete, completeDefault, {})
              images == getImages(b, toComplete)
          IN  [sugg |-> containers.sugg \o images.sugg,
               dir |-> ShellCompDirectiveNoFileComp,
               q |-> containers.q \o images.q, panic |-> FALSE])

AutocompleteVolumes(b, cmd, args, toComplete) ==
    Gated(cmd, args, toComplete, Returned(getVolumes(b, toComplete)))

AutocompleteImages(b, cmd, args, toComplete) ==
    Gated(cmd, args, toComplete, Returned(getImages(b, toComplete)))

AutocompleteCreateRun(b, cmd, args, toComplete) ==
    Gated(cmd, args, toComplete,
          IF Len(args) < 1 THEN Returned(getImages(b, toComplete))
          ELSE [sugg |-> << >>, dir |-> ShellCompDirectiveDefault, q |-> << >>,
                panic |-> FALSE])

AutocompleteRegistries(b, cmd, args, toComplete) ==
    Gated(cmd, args, toComplete, Returned(getRegistries(b)))

AutocompleteNetworks(b, cmd, args, toComplete) ==
    Gated(cmd, args, toComplete, Returned(getNetworks(b, toComplete)))

\* a cp completion that returns NoSpace whether or not a container matched
AutocompleteCpCommandAlwaysNoSpace(b, cmd, args, toComplete) ==
    Gated(cmd, args, toComplete,
          IF Len(args) < 2
          THEN LET containers == getContainers(b, toComplete, completeDefault, {})
               IN  [sugg |-> containers.sugg, dir |-> ShellCompDirectiveNoSpace,
                    q |-> containers.q, panic |-> FALSE]
          ELSE [sugg |-> << >>, dir |-> ShellCompDirectiveNoFileComp, q |-> << >>,
                panic |-> FALSE])

AutocompleteCpCommand(b, cmd, args, toComplete) ==
    Gated(cmd, args, toComplete,
          IF Len(args) < 2
          THEN LET containers == getContainers(b, toComplete, completeDefault, {})
               IN  IF \E i \in 1..Len(containers.sugg) :
                          HasPrefix(containers.sugg[i], toComplete)
                   THEN [sugg |-> containers.sugg, dir |-> ShellCompDirectiveNoSpace,
                         q |-> containers.q, panic |-> FALSE]
                   ELSE [sugg |-> << >>, dir |-> ShellCompDirectiveDefault,
                         q |-> containers.q, panic |-> FALSE]
          ELSE [sugg |-> << >>, dir |-> ShellCompDirectiveNoFileComp, q |-> << >>,
                panic |-> FALSE])

\* the suggestions of lines 425-428, one per service destination
RECURSIVE ConnectionSuggestions(_)
ConnectionSuggestions(dests) ==
    IF dests = << >> THEN << >>
    ELSE <<Head(dests).Name \o <<"\t">> \o Head(dests).URI>>
         \o ConnectionSuggestions(Tail(dests))

AutocompleteSystemConnections(b, cmd, args, toComplete) ==
    Gated(cmd, args, toComplete,
          IF "ReadCustomConfig" \in b.failing
          THEN Returned(QueryFailed("ReadCustomConfig"))
          ELSE [sugg |-> ConnectionSuggestions(ServiceDestinations),
                dir |-> ShellCompDirectiveNoFileComp,
                q |-> <<"ReadCustomConfig">>, panic |-> FALSE])

(***************************************************************************)
(* Flag entry points.  Those built on completeKeyValues return the record  *)
(* of completeKeyValues, with containerStatuses after the call in cs.      *)
(***************************************************************************)
NamespaceKV ==
    << [key |-> <<"c","o","n","t","a","i","n","e","r",":">>, getComps |-> "getContainers(s, completeDefault)"],
       [key |-> <<"n","s",":">>, getComps |-> "paths"],
       [key |-> <<"h","o","s","t">>, getComps |-> "nil"],
       [key |-> <<"p","r","i","v","a","t","e">>, getComps |-> "nil"] >>

AutocompleteNamespace(b, cs, o, toComplete) ==
    completeKeyValues(toComplete, Enumerate(NamespaceKV, o), b, cs)

AutocompleteUserNamespace(b, cs, o, toComplete) ==
    LET r == AutocompleteNamespace(b, cs, o, toComplete)
    IN  [r EXCEPT !.sugg = r.sugg \o <<<<"a","u","t","o">>, <<"k","e","e","p","-","i","d">>>>]

SecurityOptionKV ==
    << [key |-> <<"a","p","p","a","r","m","o","r","=">>, getComps |-> "nil"],
       [key |-> <<"n","o","-","n","e","w","-","p","r","i","v","i","l","e","g","e","s">>, getComps |-> "nil"],
       [key |-> <<"s","e","c","c","o","m","p","=">>, getComps |-> "paths"],
       [key |-> <<"l","a","b","e","l","=">>, getComps |-> "label"] >>

AutocompleteSecurityOption(b, cs, o, toComplete) ==
    completeKeyValues(toComplete, Enumerate(SecurityOptionKV, o), b, cs)

AutocompleteVolumeFlag(b, toComplete) ==
    LET volumes == getVolumes(b, toComplete)
    IN  [sugg |-> volumes.sugg,
         dir |-> IF Contains(toComplete, <<":">>) THEN ShellCompDirectiveDefault
                 ELSE ShellCompDirectiveNoSpace \cup ShellCompDirectiveDefault,
         q |-> volumes.q, panic |-> FALSE]

PsFiltersKV ==
    << [key |-> <<"i","d","=">>, getComps |-> "getContainers(s, completeIDs)"],
       [key |-> <<"n","a","m","e","=">>, getComps |-> "getContainers(s, completeNames)"],
       [key |-> <<"s","t","a","t","u","s","=">>, getComps |-> "containerStatuses"],
       [key |-> <<"a","n","c","e","s","t","o","r">>, getComps |-> "getImages(s)"],
       [key |-> <<"b","e","f","o","r","e","=">>, getComps |-> "getContainers(s, completeDefault)"],
       [key |-> <<"s","i","n","c","e","=">>, getComps |-> "getContainers(s, completeDefault)"],
       [key |-> <<"v","o","l","u","m","e","=">>, getComps |-> "getVolumes(s)"],
       [key |-> <<"h","e","a","l","t","h","=">>, getComps |-> "health"],
       [key |-> <<"l","a","b","e","l","=">>, getComps |-> "nil"],
       [key |-> <<"e","x","i","t","e","d","=">>, getComps |-> "nil"],
       [key |-> <<"u","n","t","i","l","=">>, getComps |-> "nil"] >>

AutocompletePsFilters(b, cs, o, toComplete) ==
    completeKeyValues(toComplete, Enumerate(PsFiltersKV, o), b, cs)

PodPsFiltersKV ==
    << [key |-> <<"i","d","=">>, getComps |-> "getPods(s, completeIDs)"],
       [key |-> <<"n","a","m","e","=">>, getComps |-> "getPods(s, completeNames)"],
       [key |-> <<"s","t","a","t","u","s","=">>, getComps |-> "podStatuses"],
       [key |-> <<"c","t","r","-","i","d","s","=">>, getComps |-> "getContainers(s, completeIDs)"],
       [key |-> <<"c","t","r","-","n","a","m","e","s","=">>, getComps |-> "getContainers(s, completeNames)"],
       [key |-> <<"c","t","r","-","n","u","m","b","e","r","=">>, getComps |-> "nil"],
       [key |-> <<"c","t","r","-","s","t","a","t","u","s","=">>, getComps |-> "containerStatuses"],
       [key |-> <<"l","a","b","e","l","=">>, getComps |-> "nil"] >>

AutocompletePodPsFilters(b, cs, o, toComplete) ==
    completeKeyValues(toComplete, Enumerate(PodPsFiltersKV, o), b, cs)

(***************************************************************************)
(* The inputs of the calls.                                                *)
(***************************************************************************)
\* the arguments already on the line; only their number is ever read
ArgPool == <<<<"a","p","p">>, <<"d","b">>, <<"a","b">>, <<"d">>, <<"a">>>>

ArgLists == {Take(ArgPool, n) : n \in 0..MaxArgs}

\* the validators validCurrentCmdLine is called with directly
Validators ==
    {NoValidator, LatestValidator}
    \cup {MinimumNArgs(n) : n \in 0..MaxArity}
    \cup {ExactArgs(n) : n \in 0..MaxArity}
    \cup {MaximumNArgs(n) : n \in 0..MaxArity}
    \cup UNION {{RangeArgs(n, m) : m \in n..MaxArity} : n \in 0..MaxArity}

\* the validators of the commands the entry points are called for
CommandValidators ==
    {NoValidator, LatestValidator, MinimumNArgs(MaxArity), ExactArgs(1),
     RangeArgs(1, MaxArity)}

\* partial tokens for entity names and IDs
EntityTokens == {<< >>, <<"a">>, <<"a","b">>, <<"a","b","f">>, <<"d">>}

\* partial tokens for image references: r starts a registry host
ImageTokens == EntityTokens \cup {<<"r">>}

\* partial tokens for the calls of validCurrentCmdLine alone
GateTokens == {<< >>, <<"a">>}

NamespaceTokens ==
    {<< >>, <<"c">>, <<"c","o","n","t","a","i","n","e","r",":">>, <<"c","o","n","t","a","i","n","e","r",":","a">>, <<"c","o","n","t","a","i","n","e","r",":","a","b">>, <<"n","s",":">>, <<"h","o","s","t">>, <<"x">>}

SecurityOptionTokens ==
    {<< >>, <<"l","a","b","e","l","=">>, <<"l","a","b","e","l","=","d">>, <<"s","e","c","c","o","m","p","=">>, <<"a","p","p","a","r","m","o","r","=">>, <<"n","o">>, <<"x">>}

VolumeFlagTokens == {<< >>, <<"a">>, <<"a",":">>, <<"d">>}

PsFiltersTokens ==
    {<< >>, <<"s">>, <<"s","t","a","t","u","s","=">>, <<"s","t","a","t","u","s","=","r">>, <<"i","d","=">>, <<"i","d","=","a">>, <<"i","d","=","a","b">>,
     <<"n","a","m","e","=">>, <<"n","a","m","e","=","a">>, <<"n","a","m","e","=","a","b">>,
     <<"a","n","c","e","s","t","o","r">>, <<"a","n","c","e","s","t","o","r","a">>, <<"b","e","f","o","r","e","=","a","b">>, <<"v","o","l","u","m","e","=","a">>, <<"h","e","a","l","t","h","=">>, <<"l","a","b","e","l","=">>, <<"x">>}

PodPsFiltersTokens ==
    {<< >>, <<"c">>, <<"c","t","r","-","s","t","a","t","u","s","=">>, <<"s","t","a","t","u","s","=">>, <<"i","d","=">>, <<"i","d","=","a">>, <<"i","d","=","a","b">>,
     <<"n","a","m","e","=">>, <<"n","a","m","e","=","a">>, <<"n","a","m","e","=","a","b">>,
     <<"c","t","r","-","i","d","s","=","a","b">>, <<"c","t","r","-","n","a","m","e","s","=","a">>, <<"c","t","r","-","n","u","m","b","e","r","=">>, <<"x">>}

(***************************************************************************)
(* The state after start-up and the calls.  Calls are synchronous and one  *)
(* at a time: a call is made when the caller holds no result, and its      *)
(* result stays in last until the caller took it.                          *)
(***************************************************************************)
NoCall ==
    [fn |-> "none", cmd |-> NoValidator, args |-> << >>, toComplete |-> << >>,
     order |-> DeclaredOrder, failing |-> {}, valid |-> "none",
     sugg |-> << >>, dir |-> {}, q |-> << >>, panic |-> FALSE]

\* line 751
ContainerStatusesDeclared ==
    <<<<"c","r","e","a","t","e","d">>, <<"r","u","n","n","i","n","g">>, <<"p","a","u","s","e","d">>, <<"s","t","o","p","p","e","d">>, <<"e","x","i","t","e","d">>, <<"u","n","k","n","o","w","n">>>>

\* line 21
ChangeCmdsDeclared ==
    <<<<"C","M","D">>, <<"E","N","T","R","Y","P","O","I","N","T">>, <<"E","N","V">>, <<"E","X","P","O","S","E">>, <<"L","A","B","E","L">>, <<"O","N","B","U","I","L","D">>, <<"S","T","O","P","S","I","G","N","A","L">>,
      <<"U","S","E","R">>, <<"V","O","L","U","M","E">>, <<"W","O","R","K","D","I","R">>>>

\* line 23
LogLevelsDeclared == <<<<"d","e","b","u","g">>, <<"i","n","f","o">>, <<"w","a","r","n">>, <<"e","r","r","o","r">>, <<"f","a","t","a","l">>, <<"p","a","n","i","c">>>>

Init ==
    /\ backend \in Backends
    /\ containerStatuses = ContainerStatusesDeclared
    /\ ChangeCmds = ChangeCmdsDeclared
    /\ LogLevels = LogLevelsDeclared
    /\ last = NoCall

\* a call of a positional entry point returned (or panicked with) r
Positional(fn, cmd, args, toComplete, failing, r) ==
    /\ last' = [fn |-> fn, cmd |-> cmd, args |-> args, toComplete |-> toComplete,
                order |-> DeclaredOrder, failing |-> failing,
                valid |-> validCurrentCmdLine(cmd, args, toComplete),
                sugg |-> r.sugg, dir |-> r.dir, q |-> r.q, panic |-> r.panic]
    /\ UNCHANGED <<backend, containerStatuses, ChangeCmds, LogLevels>>

\* a call of a flag entry point returned r
Flag(fn, toComplete, o, failing, r) ==
    /\ last' = [fn |-> fn, cmd |-> NoValidator, args |-> << >>,
                toComplete |-> toComplete, order |-> o, failing |-> failing,
                valid |-> "none",
                sugg |-> r.sugg, dir |-> r.dir, q |-> r.q, panic |-> r.panic]
    /\ UNCHANGED <<backend, ChangeCmds, LogLevels>>

\* a call built on completeKeyValues returned r; the calls that write
\* containerStatuses stop once its strings have grown to MaxStatusLen
KeyValue(fn, toComplete, o, failing, r) ==
    /\ r.cs # containerStatuses => Len(containerStatuses[1]) < MaxStatusLen
    /\ Flag(fn, toComplete, o, failing, r)
    /\ containerStatuses' = r.cs

ValidCurrentCmdLine ==
    /\ last = NoCall
    /\ \E cmd \in Validators, args \in ArgLists, toComplete \in GateTokens :
           Positional("validCurrentCmdLine", cmd, args, toComplete, {},
                      [sugg |-> << >>, dir |-> {}, q |-> << >>,
                       panic |-> validCurrentCmdLine(cmd, args, toComplete) = "panic"])

Containers ==
    /\ last = NoCall
    /\ \E cmd \in CommandValidators, args \in ArgLists, toComplete \in EntityTokens,
          failing \in SUBSET {"ContainerList"} :
           Positional("AutocompleteContainers", cmd, args, toComplete, failing,
                      AutocompleteContainers(Engine(backend, failing), cmd, args, toComplete))

ContainersCreated ==
    /\ last = NoCall
    /\ \E cmd \in CommandValidators, args \in ArgLists, toComplete \in EntityTokens,
          failing \in SUBSET {"ContainerList"} :
           Positional("AutocompleteContainersCreated", cmd, args, toComplete, failing,
                      AutocompleteContainersCreated(Engine(backend, failing), cmd, args, toComplete))

ContainersExited ==
    /\ last = NoCall
    /\ \E cmd \in CommandValidators, args \in ArgLists, toComplete \in EntityTokens,
          failing \in SUBSET {"ContainerList"} :
           Positional("AutocompleteContainersExited", cmd, args, toComplete, failing,
                      AutocompleteContainersExited(Engine(backend, failing), cmd, args, toComplete))

ContainersPaused ==
    /\ last = NoCall
    /\ \E cmd \in CommandValidators, args \in ArgLists, toComplete \in EntityTokens,
          failing \in SUBSET {"ContainerList"} :
           Positional("AutocompleteContainersPaused", cmd, args, toComplete, failing,
                      AutocompleteContainersPaused(Engine(backend, failing), cmd, args, toComplete))

ContainersRunning ==
    /\ last = NoCall
    /\ \E cmd \in CommandValidators, args \in ArgLists, toComplete \in EntityTokens,
          failing \in SUBSET {"ContainerList"} :
           Positional("AutocompleteContainersRunning", cmd, args, toComplete, failing,
                      AutocompleteContainersRunning(Engine(backend, failing), cmd, args, toComplete))

ContainersStartable ==
    /\ last = NoCall
    /\ \E cmd \in CommandValidators, args \in ArgLists, toComplete \in EntityTokens,
          failing \in SUBSET {"ContainerList"} :
           Positional("AutocompleteContainersStartable", cmd, args, toComplete, failing,
                      AutocompleteContainersStartable(Engine(backend, failing), cmd, args, toComplete))

Pods ==
    /\ last = NoCall
    /\ \E cmd \in CommandValidators, args \in ArgLists, toComplete \in EntityTokens,
          failing \in SUBSET {"PodPs"} :
           Positional("AutocompletePods", cmd, args, toComplete, failing,
                      AutocompletePods(Engine(backend, failing), cmd, args, toComplete))

PodsRunning ==
    /\ last = NoCall
    /\ \E cmd \in CommandValidators, args \in ArgLists, toComplete \in EntityTokens,
          failing \in SUBSET {"PodPs"} :
           Positional("AutocompletePodsRunning", cmd, args, toComplete, failing,
                      AutocompletePodsRunning(Engine(backend, failing), cmd, args, toComplete))

ContainersAndPods ==
    /\ last = NoCall
    /\ \E cmd \in CommandValidators, args \in ArgLists, toComplete \in EntityTokens,
          failing \in SUBSET {"ContainerList", "PodPs"} :
           Positional("AutocompleteContainersAndPods", cmd, args, toComplete, failing,
                      AutocompleteContainersAndPods(Engine(backend, failing), cmd, args, toComplete))

ContainersAndImages ==
    /\ last = NoCall
    /\ \E cmd \in CommandValidators, args \in ArgLists, toComplete \in EntityTokens,
          failing \in SUBSET {"ContainerList", "ImageList"} :
           Positional("AutocompleteContainersAndImages", cmd, args, toComplete, failing,
                      AutocompleteContainersAndImages(Engine(backend, failing), cmd, args, toComplete))

Volumes ==
    /\ last = NoCall
    /\ \E cmd \in CommandValidators, args \in ArgLists, toComplete \in EntityTokens,
          failing \in SUBSET {"VolumeList"} :
           Positional("AutocompleteVolumes", cmd, args, toComplete, failing,
                      AutocompleteVolumes(Engine(backend, failing), cmd, args, toComplete))

Images ==
    /\ last = NoCall
    /\ \E cmd \in CommandValidators, args \in ArgLists, toComplete \in ImageTokens,
          failing \in SUBSET {"ImageList"} :
           Positional("AutocompleteImages", cmd, args, toComplete, failing,
                      AutocompleteImages(Engine(backend, failing), cmd, args, toComplete))

CreateRun ==
    /\ last = NoCall
    /\ \E cmd \in CommandValidators, args \in ArgLists, toComplete \in EntityTokens,
          failing \in SUBSET {"ImageList"} :
           Positional("AutocompleteCreateRun", cmd, args, toComplete, failing,
                      AutocompleteCreateRun(Engine(backend, failing), cmd, args, toComplete))

RegistriesCall ==
    /\ last = NoCall
    /\ \E cmd \in CommandValidators, args \in ArgLists, toComplete \in EntityTokens,
          failing \in SUBSET {"GetRegistries"} :
           Positional("AutocompleteRegistries", cmd, args, toComplete, failing,
                      AutocompleteRegistries(Engine(backend, failing), cmd, args, toComplete))

Networks ==
    /\ last = NoCall
    /\ \E cmd \in CommandValidators, args \in ArgLists, toComplete \in EntityTokens,
          failing \in SUBSET {"NetworkList"} :
           Positional("AutocompleteNetworks", cmd, args, toComplete, failing,
                      AutocompleteNetworks(Engine(backend, failing), cmd, args, toComplete))

CpCommand ==
    /\ last = NoCall
    /\ \E cmd \in CommandValidators, args \in ArgLists, toComplete \in EntityTokens,
          failing \in SUBSET {"ContainerList"} :
           Positional("AutocompleteCpCommand", cmd, args, toComplete, failing,
                      AutocompleteCpCommand(Engine(backend, failing), cmd, args, toComplete))

SystemConnections ==
    /\ last = NoCall
    /\ \E cmd \in CommandValidators, args \in ArgLists, toComplete \in EntityTokens,
          failing \in SUBSET {"ReadCustomConfig"} :
           Positional("AutocompleteSystemConnections", cmd, args, toComplete, failing,
                      AutocompleteSystemConnections(Engine(backend, failing), cmd, args, toComplete))

ChangeInstructions ==
    /\ last = NoCall
    /\ \E toComplete \in EntityTokens :
           Flag("AutocompleteChangeInstructions", toComplete, DeclaredOrder, {},
                [sugg |-> ChangeCmds, dir |-> ShellCompDirectiveNoSpace,
                 q |-> << >>, panic |-> FALSE])
    /\ UNCHANGED containerStatuses

LogLevel ==
    /\ last = NoCall
    /\ \E toComplete \in EntityTokens :
           Flag("AutocompleteLogLevel", toComplete, DeclaredOrder, {},
                [sugg |-> LogLevels, dir |-> ShellCompDirectiveNoFileComp,
                 q |-> << >>, panic |-> FALSE])
    /\ UNCHANGED containerStatuses

VolumeFlag ==
    /\ last = NoCall
    /\ \E toComplete \in VolumeFlagTokens, failing \in SUBSET {"VolumeList"} :
           Flag("AutocompleteVolumeFlag", toComplete, DeclaredOrder, failing,
                AutocompleteVolumeFlag(Engine(backend, failing), toComplete))
    /\ UNCHANGED containerStatuses

Namespace ==
    /\ last = NoCall
    /\ \E toComplete \in NamespaceTokens, o \in Orders(NamespaceKV),
          failing \in SUBSET {"ContainerList"} :
           KeyValue("AutocompleteNamespace", toComplete, o, failing,
                    AutocompleteNamespace(Engine(backend, failing), containerStatuses, o, toComplete))

UserNamespace ==
    /\ last = NoCall
    /\ \E toComplete \in NamespaceTokens, o \in Orders(NamespaceKV),
          failing \in SUBSET {"ContainerList"} :
           KeyValue("AutocompleteUserNamespace", toComplete, o, failing,
                    AutocompleteUserNamespace(Engine(backend, failing), containerStatuses, o, toComplete))

SecurityOption ==
    /\ last = NoCall
    /\ \E toComplete \in SecurityOptionTokens, o \in Orders(SecurityOptionKV),
          failing \in SUBSET {} :
           KeyValue("AutocompleteSecurityOption", toComplete, o, failing,
                    AutocompleteSecurityOption(Engine(backend, failing), containerStatuses, o, toComplete))

PsFilters ==
    /\ last = NoCall
    /\ \E toComplete \in PsFiltersTokens, o \in Orders(PsFiltersKV),
          failing \in SUBSET {"ContainerList", "ImageList", "VolumeList"} :
           KeyValue("AutocompletePsFilters", toComplete, o, failing,
                    AutocompletePsFilters(Engine(backend, failing), containerStatuses, o, toComplete))

PodPsFilters ==
    /\ last = NoCall
    /\ \E toComplete \in PodPsFiltersTokens, o \in Orders(PodPsFiltersKV),
          failing \in SUBSET {"ContainerList", "PodPs"} :
           KeyValue("AutocompletePodPsFilters", toComplete, o, failing,
                    AutocompletePodPsFilters(Engine(backend, failing), containerStatuses, o, toComplete))

\* the caller (cobra's __complete command) prints the result; the process
\* either ends there or, when it is kept alive, is ready for the next call
ResultTaken ==
    /\ last # NoCall
    /\ last' = NoCall
    /\ UNCHANGED <<backend, containerStatuses, ChangeCmds, LogLevels>>

Next ==
    \/ ResultTaken
    \/ ValidCurrentCmdLine
    \/ Containers
    \/ ContainersCreated
    \/ ContainersExited
    \/ ContainersPaused
    \/ ContainersRunning
    \/ ContainersStartable
    \/ Pods
    \/ PodsRunning
    \/ ContainersAndPods
    \/ ContainersAndImages
    \/ Volumes
    \/ Images
    \/ CreateRun
    \/ RegistriesCall
    \/ Networks
    \/ CpCommand
    \/ SystemConnections
    \/ ChangeInstructions
    \/ LogLevel
    \/ VolumeFlag
    \/ Namespace
    \/ UserNamespace
    \/ SecurityOption
    \/ PsFilters
    \/ PodPsFilters

Spec == Init /\ [][Next]_vars

(***************************************************************************)
(* Properties.                                                             *)
(***************************************************************************)
PositionalEntryPoints ==
    {"AutocompleteContainers", "AutocompleteContainersCreated",
     "AutocompleteContainersExited", "AutocompleteContainersPaused",
     "AutocompleteContainersRunning", "AutocompleteContainersStartable",
     "AutocompletePods", "AutocompletePodsRunning",
     "AutocompleteContainersAndPods", "AutocompleteContainersAndImages",
     "AutocompleteVolumes", "AutocompleteImages", "AutocompleteCreateRun",
     "AutocompleteRegistries", "AutocompleteNetworks", "AutocompleteCpCommand",
     "AutocompleteSystemConnections"}

\* the last call went through validCurrentCmdLine
GateCalled == last.valid # "none"

\* what the validator of the last call said about args-so-far + [partial token]
LastArgsError == Args(last.cmd, Append(last.args, last.toComplete))

\* the validator rejected with "requires at least N arg(s), only received M"
\* or "accepts N arg(s), received M"; N is last.cmd.n, M is LastGot
KnownPhrasing ==
    /\ GateCalled
    /\ last.cmd.kind \in {"MinimumNArgs", "ExactArgs"}
    /\ ~LastArgsError.isNil

\* the validator rejected with any other message
OtherPhrasing ==
    /\ GateCalled
    /\ last.cmd.kind \in {"MaximumNArgs", "RangeArgs", "NoArgsWithLatest"}
    /\ ~LastArgsError.isNil

LastGot == Len(last.args) + 1

\* C1: when the validator rejects with one of the two known phrasings,
\* validCurrentCmdLine returns true if N >= M and otherwise returns false
\* (it returns: it does not panic).
C1_ArityGateReturns ==
    KnownPhrasing =>
        /\ ~last.panic
        /\ last.valid = (IF last.cmd.n >= LastGot THEN "true" ELSE "false")

\* C2 as stated: a validator requiring at least 2 arguments, 2 arguments on
\* the line and any partial token: validCurrentCmdLine returns false.
C2_Stated ==
    (GateCalled /\ last.cmd = MinimumNArgs(2) /\ Len(last.args) = 2)
        => last.valid = "false"

\* C2 as amended: a validator requiring at least 2 arguments, 2 arguments on
\* the line and any partial token: the validator accepts the 3 tokens and
\* validCurrentCmdLine returns true.
C2_MinimumTwoWithTwoArgs ==
    (GateCalled /\ last.cmd = MinimumNArgs(2) /\ Len(last.args) = 2)
        => (LastArgsError.isNil /\ last.valid = "true" /\ ~last.panic)

C2_Witness ==
    /\ GateCalled
    /\ last.cmd = MinimumNArgs(2)
    /\ Len(last.args) = 2
    /\ last.valid = "true"

\* C3: the gate fails closed: a rejection whose message is neither known
\* phrasing makes validCurrentCmdLine return false; without a validator, or
\* when the validator accepts, it returns true.
C3_FailClosed ==
    /\ OtherPhrasing => (last.valid = "false" /\ ~last.panic)
    /\ (GateCalled /\ (last.cmd.kind = "nil" \/ LastArgsError.isNil))
           => (last.valid = "true" /\ ~last.panic)

C3_Witness ==
    /\ OtherPhrasing
    /\ last.cmd.kind = "RangeArgs"
    /\ LastGot > last.cmd.m
    /\ last.valid = "false"

\* what the last key-value call returns in a process that made no call before
FirstCallResult ==
    CASE last.fn = "AutocompletePsFilters" ->
             AutocompletePsFilters(Engine(backend, last.failing),
                                   ContainerStatusesDeclared, last.order,
                                   last.toComplete)
      [] last.fn = "AutocompletePodPsFilters" ->
             AutocompletePodPsFilters(Engine(backend, last.failing),
                                      ContainerStatusesDeclared, last.order,
                                      last.toComplete)

\* C4: no call changes the package-level vocabularies, and a call of
\* AutocompletePsFilters or AutocompletePodPsFilters returns what the same
\* call returns in a fresh process, whatever calls preceded it.
C4_NoSharedMutableState ==
    /\ containerStatuses = ContainerStatusesDeclared
    /\ ChangeCmds = ChangeCmdsDeclared
    /\ LogLevels = LogLevelsDeclared
    /\ last.fn \in {"AutocompletePsFilters", "AutocompletePodPsFilters"}
           => last.sugg = FirstCallResult.sugg

\* a query the last call issued failed
QueryFailedInCall == \E i \in 1..Len(last.q) : last.q[i] \in last.failing

\* C5: an entry point one of whose backend queries failed returns no
\* suggestion and the Error directive.
C5_BackendFailurePropagates ==
    (last.fn # "none" /\ ~last.panic /\ QueryFailedInCall)
        => (last.sugg = << >> /\ last.dir = ShellCompDirectiveError)

\* C6: a returned directive that contains Error is Error alone and comes
\* with an empty suggestion list.
C6_ErrorIsExclusiveAndEmpty ==
    (last.fn # "none" /\ ~last.panic /\ "Error" \in last.dir)
        => (last.dir = ShellCompDirectiveError /\ last.sugg = << >>)

\* C7: a positional entry point whose command line validCurrentCmdLine
\* rejected returns no suggestion, the directive NoFileComp alone, and has
\* issued no backend query.
C7_ArityRejection ==
    (last.fn \in PositionalEntryPoints /\ last.valid = "false")
        => /\ ~last.panic
           /\ last.sugg = << >>
           /\ last.dir = ShellCompDirectiveNoFileComp
           /\ last.q = << >>

C7_Witness ==
    /\ last.fn = "AutocompleteContainersAndPods"
    /\ last.valid = "false"
    /\ last.failing = {"ContainerList", "PodPs"}
    /\ last.dir = ShellCompDirectiveNoFileComp

(***************************************************************************)
(* Where a suggestion comes from.                                          *)
(***************************************************************************)
Elems(s) == {s[i] : i \in 1..Len(s)}

\* suggestions made of the ID of a container, of a pod, of an image
ContainerIDSuggestions ==
    {SubSeq(c.ID, 1, IDLen) \o <<"\t">> \o c.PodName : c \in Elems(backend.containers)}

PodIDSuggestions == {SubSeq(pod.Id, 1, IDLen) : pod \in Elems(backend.pods)}

ImageIDSuggestions == {SubSeq(image.ID, 1, IDLen) : image \in Elems(backend.images)}

\* suggestions made of the first name of a container, of the name of a pod,
\* when that name has the prefix
ContainerNameSuggestions(prefix) ==
    {c.Names[1] \o <<"\t">> \o c.PodName :
        c \in {x \in Elems(backend.containers) : HasPrefix(x.Names[1], prefix)}}

PodNameSuggestions(prefix) ==
    {pod.Name : pod \in {x \in Elems(backend.pods) : HasPrefix(x.Name, prefix)}}

\* suggestions made of a repo tag: the reference, or what follows one of its
\* slashes, with or without the tag or digest
RepoTagSuggestions ==
    UNION { UNION { LET paths == Split(repo, <<"/">>)
                    IN  UNION { {Join(SubSeq(paths, i, Len(paths)), <<"/">>),
                                 WithoutTag(Join(SubSeq(paths, i, Len(paths)), <<"/">>))} :
                                i \in 1..Len(paths) } :
                    repo \in Elems(image.RepoTags) } :
            image \in Elems(backend.images) }

ContainerEntryPoints ==
    {"AutocompleteContainers", "AutocompleteContainersCreated",
     "AutocompleteContainersExited", "AutocompleteContainersPaused",
     "AutocompleteContainersRunning", "AutocompleteContainersStartable"}

PodEntryPoints == {"AutocompletePods", "AutocompletePodsRunning"}

\* the last call returned what getContainers, getPods, getImages made of the
\* records, in completeDefault mode
ReturnedContainers ==
    last.fn \in ContainerEntryPoints /\ last.valid = "true" /\ last.failing = {}

ReturnedPods ==
    last.fn \in PodEntryPoints /\ last.valid = "true" /\ last.failing = {}

ReturnedImages ==
    last.fn = "AutocompleteImages" /\ last.valid = "true" /\ last.failing = {}

\* C8: with a partial token of length 0 or 1, completeDefault mode offers no
\* ID: every suggestion of getContainers and getPods is a name that has the
\* token as prefix, every suggestion of getImages is made of a repo tag and
\* has the token as prefix.
C8_NoIDForShortToken ==
    Len(last.toComplete) <= 1 =>
        /\ ReturnedContainers =>
               Elems(last.sugg) \subseteq ContainerNameSuggestions(last.toComplete)
        /\ ReturnedPods =>
               Elems(last.sugg) \subseteq PodNameSuggestions(last.toComplete)
        /\ ReturnedImages =>
               /\ Elems(last.sugg) \subseteq RepoTagSuggestions
               /\ Elems(last.sugg) \cap ImageIDSuggestions = {}
               /\ \A s \in Elems(last.sugg) : HasPrefix(s, last.toComplete)

\* a one-character token that is the prefix of an ID and of a name returned
\* the name alone
C8_Witness ==
    /\ ReturnedContainers
    /\ Len(last.toComplete) = 1
    /\ \E c \in Elems(backend.containers) : HasPrefix(c.ID, last.toComplete)
    /\ last.sugg # << >>

Delegated(fn, key) ==
    last.fn = fn /\ HasPrefix(last.toComplete, key) /\ last.failing = {}

\* the suggestions of the last call with the key taken off again
Stripped(key) == {TrimPrefix(s, key) : s \in Elems(last.sugg)}

\* C10: getContainers and getPods in completeIDs mode (the id= and ctr-ids=
\* filters) return no name, and in completeNames mode (name= and ctr-names=)
\* no ID, for a token of any length.
C10_ModeExclusive ==
    /\ \A key \in {<<"i","d","=">>, <<"c","t","r","-","i","d","s","=">>}, fn \in {"AutocompletePsFilters", "AutocompletePodPsFilters"} :
           (Delegated(fn, key) /\ <<fn, key>> # <<"AutocompletePodPsFilters", <<"i","d","=">>>>
                /\ <<fn, key>> # <<"AutocompletePsFilters", <<"c","t","r","-","i","d","s","=">>>>)
               => /\ Stripped(key) \subseteq ContainerIDSuggestions
                  /\ Stripped(key) \cap ContainerNameSuggestions(<< >>) = {}
    /\ \A key \in {<<"n","a","m","e","=">>, <<"c","t","r","-","n","a","m","e","s","=">>}, fn \in {"AutocompletePsFilters", "AutocompletePodPsFilters"} :
           (Delegated(fn, key) /\ <<fn, key>> # <<"AutocompletePodPsFilters", <<"n","a","m","e","=">>>>
                /\ <<fn, key>> # <<"AutocompletePsFilters", <<"c","t","r","-","n","a","m","e","s","=">>>>)
               => /\ Stripped(key) \subseteq ContainerNameSuggestions(<< >>)
                  /\ Stripped(key) \cap ContainerIDSuggestions = {}
    /\ Delegated("AutocompletePodPsFilters", <<"i","d","=">>)
           => /\ Stripped(<<"i","d","=">>) \subseteq PodIDSuggestions
              /\ Stripped(<<"i","d","=">>) \cap PodNameSuggestions(<< >>) = {}
    /\ Delegated("AutocompletePodPsFilters", <<"n","a","m","e","=">>)
           => /\ Stripped(<<"n","a","m","e","=">>) \subseteq PodNameSuggestions(<< >>)
              /\ Stripped(<<"n","a","m","e","=">>) \cap PodIDSuggestions = {}

\* completeIDs mode was asked with a token that is also the prefix of a name
C10_Witness ==
    /\ Delegated("AutocompletePodPsFilters", <<"i","d","=">>)
    /\ last.sugg # << >>
    /\ PodNameSuggestions(TrimPrefix(last.toComplete, <<"i","d","=">>)) # {}

(***************************************************************************)
(* What the adapters and the combinator return.                            *)
(***************************************************************************)
\* for one container: its ID suggestion if the ID has the prefix, then its
\* name suggestion if its first name has the prefix
ContainerEntry(c, prefix) ==
    (IF HasPrefix(c.ID, prefix)
     THEN <<SubSeq(c.ID, 1, IDLen) \o <<"\t">> \o c.PodName>> ELSE << >>)
    \o (IF HasPrefix(c.Names[1], prefix)
        THEN <<c.Names[1] \o <<"\t">> \o c.PodName>> ELSE << >>)

\* the concatenation of the sequences of a sequence
RECURSIVE Flatten(_)
Flatten(seqs) == IF seqs = << >> THEN << >> ELSE Head(seqs) \o Flatten(Tail(seqs))

KeyValueEntryPoints ==
    {"AutocompleteNamespace", "AutocompleteSecurityOption",
     "AutocompletePsFilters", "AutocompletePodPsFilters"}

\* the grammar of an entry point, as declared
GrammarOf(fn) ==
    CASE fn = "AutocompleteNamespace" -> NamespaceKV
      [] fn = "AutocompleteSecurityOption" -> SecurityOptionKV
      [] fn = "AutocompletePsFilters" -> PsFiltersKV
      [] fn = "AutocompletePodPsFilters" -> PodPsFiltersKV
      [] OTHER -> << >>

Grammar == GrammarOf(last.fn)

Keys == {Grammar[i].key : i \in 1..Len(Grammar)}

\* the keys that have the token of the last call as prefix
MatchedKeys == {key \in Keys : HasPrefix(key, last.toComplete)}

\* C12: for a token that no key of the grammar is a prefix of,
\* completeKeyValues returns exactly the keys that have the token as prefix,
\* once each, with NoFileComp, and NoSpace as well exactly when one of the
\* returned keys ends in = or in a colon.
C12_KeyListing ==
    (last.fn \in KeyValueEntryPoints
         /\ \A key \in Keys : ~HasPrefix(last.toComplete, key))
        => /\ Elems(last.sugg) = MatchedKeys
           /\ Len(last.sugg) = Cardinality(MatchedKeys)
           /\ last.dir = (IF \E key \in MatchedKeys : key[Len(key)] \in {"=", ":"}
                          THEN ShellCompDirectiveNoSpace \cup ShellCompDirectiveNoFileComp
                          ELSE ShellCompDirectiveNoFileComp)

\* the token no matches one key, which ends neither in = nor in a colon
C12_Witness ==
    /\ last.fn = "AutocompleteSecurityOption"
    /\ last.toComplete = <<"n","o">>
    /\ last.sugg = <<<<"n","o","-","n","e","w","-","p","r","i","v","i","l","e","g","e","s">>>>
    /\ last.dir = ShellCompDirectiveNoFileComp


\* the call this step makes returns, for the entry e of its grammar whose key
\* starts the token and has a completer, the directive of the completer and
\* its suggestions, each behind the key, in the same order
DelegationStep(call) ==
    \A i \in 1..Len(GrammarOf(call.fn)) :
        LET e == GrammarOf(call.fn)[i]
        IN  (HasPrefix(call.toComplete, e.key) /\ e.getComps # "nil") =>
                LET f == GetComps(e.getComps, Engine(backend, call.failing),
                                  containerStatuses,
                                  SubSeq(call.toComplete, Len(e.key) + 1,
                                         Len(call.toComplete)))
                IN  /\ call.dir = f.dir
                    /\ Len(call.sugg) = Len(f.sugg)
                    /\ \A j \in 1..Len(f.sugg) : call.sugg[j] = e.key \o f.sugg[j]
                    /\ [j \in 1..Len(call.sugg) |-> TrimPrefix(call.sugg[j], e.key)]
                           = f.sugg

\* C13: when the token begins with a key that has a nested completer,
\* completeKeyValues returns the completer's directive unchanged and the
\* completer's suggestions for the rest of the token, in the same number and
\* order, each with the key in front; taking the key off again gives the
\* completer's suggestions.
C13_DelegationRoundTrip ==
    [][last'.fn \in KeyValueEntryPoints => DelegationStep(last')]_vars

\* a delegation that returned two suggestions
C13_Witness ==
    /\ Delegated("AutocompletePsFilters", <<"i","d","=">>)
    /\ Len(last.sugg) = 2
    /\ \A s \in Elems(last.sugg) : HasPrefix(s, <<"i","d","=">>)

\* C14: with the empty token and a successful query getImages returns one
\* suggestion per repo tag of every image, in order, each the complete repo
\* reference: no image ID, no part of a reference, no reference without its
\* tag.
C14_EmptyTokenImages ==
    (ReturnedImages /\ last.toComplete = << >>)
        => /\ last.sugg = Flatten([i \in 1..Len(backend.images) |->
                                      backend.images[i].RepoTags])
           /\ last.dir = ShellCompDirectiveNoFileComp

\* two images with three repo tags between them: three suggestions
C14_Witness ==
    /\ ReturnedImages
    /\ last.toComplete = << >>
    /\ Len(backend.images) = 2
    /\ last.sugg = <<<<"r","e","g",".","i","o","/","g","r","p","/","a","p","p",":","v","1">>, <<"r","e","g",":","5","0","0","0","/","d","b","@","s","h","a">>, <<"a","b","f">>>>

\* a reference without its trailing tag or digest: what follows the last
\* slash, cut at its first colon or at sign
WithoutTrailingTag(ref) ==
    LET segs == Split(ref, <<"/">>)
        n == Len(segs)
    IN  Join(Append(SubSeq(segs, 1, n - 1),
                    SplitN2First(SplitN2First(segs[n], <<":">>), <<"@">>)),
             <<"/">>)

\* for every repo tag and every suffix of its segments: the suffix joined
\* with slashes, and that string without its trailing tag or digest
TagCandidates ==
    UNION { UNION { LET paths == Split(repo, <<"/">>)
                    IN  UNION { {Join(SubSeq(paths, i, Len(paths)), <<"/">>),
                                 WithoutTrailingTag(Join(SubSeq(paths, i, Len(paths)), <<"/">>))} :
                                i \in 1..Len(paths) } :
                    repo \in Elems(image.RepoTags) } :
            image \in Elems(backend.images) }

\* C15: for a non-empty token getImages offers, besides image IDs, exactly
\* the candidates that have the token as prefix, the candidates being, for
\* every repo tag and every suffix of its segment list, the suffix joined
\* with slashes and that string with only its trailing tag or digest
\* removed; also for a reference whose registry host carries a port.
C15_HierarchicalTagMatching ==
    (ReturnedImages /\ last.toComplete # << >>)
        => Elems(last.sugg) \ ImageIDSuggestions
               = {c \in TagCandidates : HasPrefix(c, last.toComplete)}

\* the backend as the last call saw it
LastEngine == Engine(backend, last.failing)

\* C16: when validCurrentCmdLine accepts, AutocompleteContainersAndPods
\* returns the suggestions of getContainers followed by those of getPods, and
\* AutocompleteContainersAndImages those of getContainers followed by those
\* of getImages, for the same token, with the directive NoFileComp alone
\* whatever directives the two adapters returned.
C16_Composites ==
    /\ (last.fn = "AutocompleteContainersAndPods" /\ last.valid = "true")
           => /\ last.sugg =
                     getContainers(LastEngine, last.toComplete, completeDefault, {}).sugg
                     \o getPods(LastEngine, last.toComplete, completeDefault, {}).sugg
              /\ last.dir = ShellCompDirectiveNoFileComp
    /\ (last.fn = "AutocompleteContainersAndImages" /\ last.valid = "true")
           => /\ last.sugg =
                     getContainers(LastEngine, last.toComplete, completeDefault, {}).sugg
                     \o getImages(LastEngine, last.toComplete).sugg
              /\ last.dir = ShellCompDirectiveNoFileComp

\* the container adapter returned Error, the pod adapter two pods
C16_Witness ==
    /\ last.fn = "AutocompleteContainersAndPods"
    /\ last.valid = "true"
    /\ last.failing = {"ContainerList"}
    /\ Len(last.sugg) = 2
    /\ last.dir = ShellCompDirectiveNoFileComp

\* the last call was AutocompleteCpCommand, accepted by validCurrentCmdLine,
\* with fewer than two arguments on the line
CpFirstTwoArgs ==
    /\ last.fn = "AutocompleteCpCommand"
    /\ last.valid = "true"
    /\ Len(last.args) < 2

\* the container suggestions for the token of the last call
CpContainers == getContainers(LastEngine, last.toComplete, completeDefault, {}).sugg

\* C17 as stated: whenever validCurrentCmdLine accepts and fewer than two
\* arguments are present, AutocompleteCpCommand returns the container
\* suggestions for the token with the directive NoSpace, for every backend
\* and every token.
C17_Stated ==
    CpFirstTwoArgs
        => (last.sugg = CpContainers /\ last.dir = ShellCompDirectiveNoSpace)

\* C17 as amended: in that case AutocompleteCpCommand returns the container
\* suggestions with NoSpace when one of them has the token as prefix, and
\* otherwise (no container matches, or the query failed) the empty list
\* with the directive Default.
C17_CopyEntryPoint ==
    CpFirstTwoArgs
        => IF \E i \in 1..Len(CpContainers) : HasPrefix(CpContainers[i], last.toComplete)
           THEN last.sugg = CpContainers /\ last.dir = ShellCompDirectiveNoSpace
           ELSE last.sugg = << >> /\ last.dir = ShellCompDirectiveDefault

\* a container, but none with the token as prefix: file completion
C17_Witness ==
    /\ CpFirstTwoArgs
    /\ last.failing = {}
    /\ Len(backend.containers) = 1
    /\ last.toComplete = <<"d">>
    /\ last.sugg = << >>
    /\ last.dir = ShellCompDirectiveDefault

CompositeEntryPoints ==
    {"AutocompleteContainersAndPods", "AutocompleteContainersAndImages"}

\* no query was issued twice during the last call
NoQueryRepeated ==
    \A i, j \in 1..Len(last.q) : i # j => last.q[i] # last.q[j]

\* C18 as stated: during one invocation every entry point makes at most one
\* call to the external query interface, and no query is issued again.
C18_Stated ==
    last.fn # "none" => (Len(last.q) <= 1 /\ NoQueryRepeated)

\* C18 as amended: during one invocation no query is issued twice, a failed
\* one included; every entry point makes at most one query, except the two
\* composite entry points, which make two when validCurrentCmdLine accepts:
\* the container list and then the pod or image list, the second also when
\* the first failed.
C18_QueriesPerCall ==
    last.fn # "none" =>
        /\ NoQueryRepeated
        /\ last.fn \notin CompositeEntryPoints => Len(last.q) <= 1
        /\ (last.fn = "AutocompleteContainersAndPods" /\ last.valid = "true")
               => last.q = <<"ContainerList", "PodPs">>
        /\ (last.fn = "AutocompleteContainersAndImages" /\ last.valid = "true")
               => last.q = <<"ContainerList", "ImageList">>
        /\ (last.fn \in CompositeEntryPoints /\ last.valid # "true")
               => last.q = << >>

\* the container query failed and the pod query was still made, once each
C18_Witness ==
    /\ last.fn = "AutocompleteContainersAndPods"
    /\ "ContainerList" \in last.failing
    /\ last.q = <<"ContainerList", "PodPs">>

\* the call this step makes returns the set of suggestions and the directive
\* that completeKeyValues returns under every enumeration order of the
\* grammar; and when a key starts the token, nothing or what is behind that
\* key, and no other key of the grammar
OrderStep(call) ==
    LET kv == GrammarOf(call.fn)
        keys == {kv[i].key : i \in 1..Len(kv)}
    IN  /\ \A o \in Orders(kv) :
               LET r == completeKeyValues(call.toComplete, Enumerate(kv, o),
                                          Engine(backend, call.failing),
                                          containerStatuses)
               IN  Elems(r.sugg) = Elems(call.sugg) /\ r.dir = call.dir
        /\ \A i \in 1..Len(kv) :
               HasPrefix(call.toComplete, kv[i].key) =>
                   /\ kv[i].getComps = "nil"
                          => (call.sugg = << >>
                              /\ call.dir = ShellCompDirectiveNoFileComp)
                   /\ \A s \in Elems(call.sugg) :
                          HasPrefix(s, kv[i].key) /\ s \notin keys \ {kv[i].key}

\* C19: for each hard-coded grammar and every token, completeKeyValues
\* returns the same set of suggestions and the same directive under every
\* enumeration order of the keys; when a key is a prefix of the token the
\* result is that key's delegation alone (empty with NoFileComp for a key
\* without completer), with no key accumulated from the others.
C19_OrderIndependence ==
    [][last'.fn \in KeyValueEntryPoints => OrderStep(last')]_vars

\* the keys were visited in another order than declared and all returned
C19_Witness ==
    /\ last.fn = "AutocompletePsFilters"
    /\ last.toComplete = << >>
    /\ last.order # DeclaredOrder
    /\ Elems(last.sugg) = {PsFiltersKV[i].key : i \in 1..Len(PsFiltersKV)}
    /\ last.sugg[1] # PsFiltersKV[1].key

====
